---- MODULE Spec2Model ----
(***************************************************************************)
(* A model of the alloyinterface telemetry client (package alloyinterface, *)
(* the rate-limited HTTP variant): the AlloyClient's rate limiter field,   *)
(* AddLog and SetRateLimit, run by concurrent callers.                     *)
(*                                                                         *)
(* The limiter is golang.org/x/time/rate.Limiter, a token bucket guarded   *)
(* by a mutex.  Its operations (NewLimiter, Wait, SetLimit, SetBurst,      *)
(* Reservation.Cancel) are modelled at the places where the client calls   *)
(* them, with the library's arithmetic: advance, reserveN, CancelAt.       *)
(*                                                                         *)
(* Time is a clock of ticks.  One tick is the time the default limiter     *)
(* (10 tokens per second) needs to refill one token, 100 ms.  Token counts *)
(* are float64 in the library; here they are integers in units of          *)
(* 1/TokenUnit of a token, so a rate of r tokens per second adds r units   *)
(* per tick and every amount the model reaches is exact.  A duration that  *)
(* is not a whole number of ticks is rounded up to the next tick, the      *)
(* resolution of the model's clock.  The instant t a Wait takes from       *)
(* time.Now() is the tick in which it makes its reservation.  The rate     *)
(* rate.Inf (no limit at all) is outside the rates the model draws.        *)
(***************************************************************************)
EXTENDS Integers, FiniteSets, Sequences, TLC

(***************************************************************************)
(* Program constants.                                                      *)
(***************************************************************************)
DefaultRate == 10
DefaultBurst == 20
DebugLevel == 0
InfoLevel == 1
PanicLevel == 5
StatusOK == 200
StatusBadRequest == 400
StatusThreshold == 300
StatusTemporaryRedirect == 307

\* The nil *rate.Limiter of a client literal that sets no limiter.
Nil == -1
\* rate.InfDuration: a duration (and an instant) later than every tick.
InfDuration == 1000

(***************************************************************************)
(* Bounds of the model.                                                    *)
(***************************************************************************)
\* The clock stops at MaxTime unless a waiting caller's timer is still due.
MaxTime == 1
\* AddLog and SetRateLimit calls begun in one behaviour of Spec.
MaxCalls == 2
MaxSets == 1
\* The same for SeqSpec, where one caller makes them one after the other.
SeqCalls == 2
SeqSets == 1
\* AddLog calls begun in one behaviour of LogSpec.
LogCalls == 3
\* AddLog calls DefaultSpec begins beyond the default burst.
ExtraCalls == 1
FairCalls == 2
\* A deadline context expires this many ticks after the call.
DeadlineTicks == 1
\* Spans that may be started, Shutdown calls that may begin, and the capacity
\* of the batch span processor's queue (2048 in the SDK, scaled down).
MaxSpans == 2
MaxDowns == 2
MaxQueueSize == 1
\* HttpSpec: AddLog calls.
HttpCalls == 1
\* LifeSpec: AddLog calls.
LifeCalls == 1
\* AttrSpec: the longest attribute list, and the AddLog calls.
MaxAttrs == 3
AttrCalls == 1

Procs == {1, 2}
\* Limiter objects: 0 is the one NewAlloyClient makes, p the one a
\* SetRateLimit running in caller p makes.
LimIds == {0} \cup Procs

\* Units per token: one tick refills one token at the default rate.
TokenUnit == DefaultRate

Levels == {DebugLevel - 1, InfoLevel, PanicLevel + 1}
\* A Go string is a sequence of units: a chunk of valid UTF-8 text, or one of
\* the units json.Marshal treats specially.
Quote == "\""
Backslash == "\\"
BadByte == "0xff"
Replacement == "U+FFFD"
Msgs == {<<>>, <<"hello">>}
\* Messages with a quote and with a byte that is not valid UTF-8.
RawMsgs == {<<"hello">>, <<"say ", Quote, "hi", Quote>>, <<"caf", BadByte>>}
CtxKinds == {"background", "live", "cancelled", "deadline"}
Statuses == {StatusOK, StatusBadRequest}
\* Statuses on both sides of the threshold.
HttpStatuses == {StatusOK, StatusThreshold - 1, StatusThreshold, StatusBadRequest}
RateArgs == {0, 5, DefaultRate}
BurstArgs == {0, 1, 15}
\* Rates and bursts for a client without limiter: negative, zero, positive.
InstallRates == {0 - 1, 0, DefaultRate}
InstallBursts == {0 - 1, 0, 1}

ErrNone == "none"
ErrRateLimit == "rate limit exceeded"
ErrLevel == "invalid log level"
ErrEmpty == "log message cannot be empty"
ErrSend == "failed to send request"
ErrStatus == "failed to send log record"
ErrMarshal == "failed to marshal log record"
ErrRequest == "failed to create request"
Unknown == <<"unknown">>
ErrTracer == "tracer not initialized"
ErrTracerName == "tracer name cannot be empty"
ErrStart == "failed to start tracing"
ErrShutdown == "shutdown errors"
ErrCanceled == "context canceled"
ErrExporter == "otlptracehttp.New failed"
ErrResource == "resource.New failed"
ErrLogDir == "failed to create log directory"

TracerNames == {"", "span1"}
ShutdownCtxKinds == {"background", "cancelled"}

Min(a, b) == IF a < b THEN a ELSE b
CeilDiv(a, b) == (a + b - 1) \div b

(***************************************************************************)
(* rate.Limiter                                                            *)
(***************************************************************************)
\* A limiter that starts with an empty bucket.
NewLimiterEmpty(r, b) ==
  [limit |-> r, burst |-> b, tokens |-> 0,
   last |-> 0, lastEvent |-> 0, mu |-> 0]

\* rate.NewLimiter(r, b): the bucket starts full.
NewLimiter(r, b) ==
  [limit |-> r, burst |-> b, tokens |-> b * TokenUnit,
   last |-> 0, lastEvent |-> 0, mu |-> 0]

TokensFromDuration(limit, d) == IF limit <= 0 THEN 0 ELSE limit * d

\* A limiter for which no token takes time to refill.
DurationFromTokensZero(limit, u) == 0

DurationFromTokens(limit, u) ==
  IF limit <= 0 THEN InfDuration
  ELSE IF u >= 0 THEN CeilDiv(u, limit) ELSE 0 - CeilDiv(0 - u, limit)

\* A clock on which every later instant is out of reach.
TimeAddNever(t, d) == InfDuration

\* The instant d after t; InfDuration absorbs.
TimeAdd(t, d) == IF t >= InfDuration \/ d >= InfDuration THEN InfDuration ELSE t + d

\* advance: the token count at instant t, refilled lazily and capped at burst.
Advance(lim, t) ==
  LET last == Min(lim.last, t)
      tokens == lim.tokens + TokensFromDuration(lim.limit, t - last)
  IN Min(tokens, lim.burst * TokenUnit)

\* reserveN(t, 1, maxFutureReserve): the reservation and the limiter after it.
ReserveN(lim, t, maxFutureReserve) ==
  LET tokens == Advance(lim, t) - TokenUnit
      waitDuration == IF tokens < 0 THEN DurationFromTokens(lim.limit, 0 - tokens) ELSE 0
      ok == 1 <= lim.burst /\ waitDuration <= maxFutureReserve
      timeToAct == TimeAdd(t, waitDuration)
  IN [ok |-> ok, timeToAct |-> timeToAct, limit |-> lim.limit,
      avail |-> tokens >= 0,
      lim |-> IF ok THEN [lim EXCEPT !.last = t, !.tokens = tokens, !.lastEvent = timeToAct]
              ELSE lim]

\* A cancelled reservation that gives nothing back.
RestoreTokensNone(lim, rTime, rLimit, t) == 0

\* Reservation.CancelAt(t): the units it gives back to the bucket.
RestoreTokens(lim, rTime, rLimit, t) ==
  IF rTime < t THEN 0
  ELSE LET restore == TokenUnit - TokensFromDuration(rLimit, lim.lastEvent - rTime)
       IN IF restore <= 0 THEN 0 ELSE restore

CancelAt(lim, rTime, rLimit, t) ==
  LET restore == RestoreTokens(lim, rTime, rLimit, t)
      tokens == Min(Advance(lim, t) + restore, lim.burst * TokenUnit)
      prevEvent == TimeAdd(rTime, DurationFromTokens(rLimit, 0 - TokenUnit))
  IN IF restore = 0 THEN lim
     ELSE [lim EXCEPT !.last = t, !.tokens = tokens,
                      !.lastEvent = IF rTime = lim.lastEvent /\ prevEvent >= t
                                    THEN prevEvent ELSE lim.lastEvent]

SetLimitAt(lim, t, newLimit) ==
  [lim EXCEPT !.last = t, !.tokens = Advance(lim, t), !.limit = newLimit]

SetBurstAt(lim, t, newBurst) ==
  [lim EXCEPT !.last = t, !.tokens = Advance(lim, t), !.burst = newBurst]

(***************************************************************************)
(* AddLog's validation of its arguments.                                   *)
(***************************************************************************)
ValidationError(level, msg) ==
  IF level < DebugLevel \/ level > PanicLevel THEN ErrLevel
  ELSE IF Len(msg) = 0 THEN ErrEmpty
  ELSE ErrNone

(***************************************************************************)
(* The log record and its JSON encoding.                                   *)
(***************************************************************************)
\* A Go value of dynamic type t; v is a sequence of units for a string and a
\* number for a level or an int.
GoString(s) == [t |-> "string", v |-> s]

\* ctx.Value("request_id") of a context that carries none.
NoValue == [t |-> "nil", v |-> <<>>]

\* What a context can carry under "request_id": nothing, a string, a string
\* that is not valid UTF-8, an int, a channel.
RequestIds ==
  {NoValue, GoString(<<"abc-123">>), GoString(<<"id", BadByte>>),
   [t |-> "int", v |-> 42], [t |-> "chan", v |-> <<>>]}

\* zerolog's Level.String().
LevelString(level) ==
  CASE level = 0 -> "debug" [] level = 1 -> "info" [] level = 2 -> "warn"
    [] level = 3 -> "error" [] level = 4 -> "fatal" [] level = 5 -> "panic"
    [] OTHER -> "level"

Digit(d) ==
  CASE d = 0 -> "0" [] d = 1 -> "1" [] d = 2 -> "2" [] d = 3 -> "3" [] d = 4 -> "4"
    [] d = 5 -> "5" [] d = 6 -> "6" [] d = 7 -> "7" [] d = 8 -> "8" [] OTHER -> "9"

RECURSIVE Itoa(_)
Itoa(n) == IF n < 10 THEN <<Digit(n)>> ELSE Itoa(n \div 10) \o <<Digit(n % 10)>>

\* time.Now().Format(time.RFC3339): whole seconds; a tick of the clock is the
\* time one token takes at the default rate.
RFC3339(t) == <<"T">> \o Itoa(t \div DefaultRate) \o <<"Z">>

\* The value AddLog sends as the correlation id.
RequestID(value) == IF value = NoValue THEN GoString(Unknown) ELSE value

\* The map AddLog builds.
LogRecord(t, level, msg, c, value) ==
  [timestamp |-> GoString(RFC3339(t)),
   level |-> [t |-> "level", v |-> level],
   message |-> GoString(msg),
   is_secret |-> GoString(<<"false">>),
   service_name |-> GoString(<<c.ServiceName>>),
   request_id |-> RequestID(value)]

\* A JSON string literal: quote and backslash are escaped, and a byte that
\* is not valid UTF-8 is written as the escape of U+FFFD.
RECURSIVE EncodeString(_)
EncodeString(s) ==
  IF s = <<>> THEN <<>>
  ELSE LET u == Head(s)
           e == IF u = Quote THEN <<Backslash, Quote>>
                ELSE IF u = Backslash THEN <<Backslash, Backslash>>
                ELSE IF u = BadByte THEN <<Backslash, "ufffd">>
                ELSE <<u>>
       IN e \o EncodeString(Tail(s))

\* The decoder's reading of a JSON string literal.
RECURSIVE DecodeString(_)
DecodeString(e) ==
  IF e = <<>> THEN <<>>
  ELSE IF Head(e) = Backslash /\ Len(e) >= 2
  THEN <<IF e[2] = "ufffd" THEN Replacement ELSE e[2]>> \o DecodeString(SubSeq(e, 3, Len(e)))
  ELSE <<Head(e)>> \o DecodeString(Tail(e))

\* An encoder that writes a string as it is.
MarshalStringRaw(s) == [t |-> "string", v |-> s]

\* json.Marshal of a string.
MarshalString(s) == [t |-> "string", v |-> EncodeString(s)]

\* json.Marshal of one value of the record; a Level is written through its
\* MarshalText.
MarshalValue(g) ==
  IF g.t = "string" THEN MarshalString(g.v)
  ELSE IF g.t = "level" THEN MarshalString(<<LevelString(g.v)>>)
  ELSE [t |-> "number", v |-> g.v]

\* json.Marshal refuses channels.
Unsupported(g) == g.t = "chan"

\* json.Marshal of the record: an object of encoded values, or a failure.
Marshal(rec) ==
  IF \E k \in DOMAIN rec : Unsupported(rec[k])
  THEN [ok |-> FALSE, bytes |-> <<>>]
  ELSE [ok |-> TRUE, bytes |-> [k \in DOMAIN rec |-> MarshalValue(rec[k])]]

\* What the server decodes from a body: json.Unmarshal into a map.
Unmarshal(bytes) ==
  [k \in DOMAIN bytes |->
     IF bytes[k].t = "string"
     THEN [t |-> "string", v |-> DecodeString(bytes[k].v)]
     ELSE bytes[k]]

\* The endpoint of the default configuration and one url.Parse refuses.
DefaultEndpoint == "http://localhost:9999"
BadEndpoint == "http://[::1"
NoEnv == [k \in {} |-> ""]
Envs ==
  {NoEnv,
   [k \in {"ALLOY_LOG_ENDPOINT"} |-> BadEndpoint],
   [k \in {"ALLOY_SERVICE_NAME"} |-> "orders"]}

\* An endpoint from which no request can be built.
NewRequestFails(endpoint) == FALSE

\* http.NewRequestWithContext succeeds when the URL parses.
NewRequest(endpoint) == endpoint # BadEndpoint

\* An AddLog that returns an error with every response.
PostResultError(status) == [err |-> ErrStatus, hasResp |-> TRUE, status |-> status]

\* AddLog's result for a response the log endpoint returned.
PostResult(status) ==
  IF status >= StatusThreshold
  THEN [err |-> ErrStatus, hasResp |-> TRUE, status |-> status]
  ELSE [err |-> ErrNone, hasResp |-> TRUE, status |-> status]

\* A failed client.Do that comes with a response.
TransportFailureResponse == [err |-> ErrSend, hasResp |-> TRUE, status |-> StatusOK]

\* AddLog's result when client.Do fails.
TransportFailure == [err |-> ErrSend, hasResp |-> FALSE, status |-> 0]

\* AddLog's result when client.Do fails and yet returns a response: the
\* redirect policy has stopped at a redirect of the endpoint.
RedirectFailure(status) == [err |-> ErrSend, hasResp |-> TRUE, status |-> status]

\* AddLog's result on the paths that return (nil, err).
ErrorResult(e) == [err |-> e, hasResp |-> FALSE, status |-> 0]

(***************************************************************************)
(* State.                                                                  *)
(*   ref     the client's rateLimiter field: Nil or a limiter object       *)
(*   lims    the limiter objects: limit, burst, tokens, last, lastEvent    *)
(*           and the holder of the mutex mu (0: free)                      *)
(*   now     the clock                                                     *)
(*   pc      where each caller is in the operation it runs                 *)
(*   loc     each caller's arguments and local variables                   *)
(*   ret     what the caller's operation returned                          *)
(*   gh      history of the caller's current call, read by the properties  *)
(*   admits  the number of Waits that have returned nil                    *)
(*   budget  AddLog calls that may still begin                             *)
(*   sets    SetRateLimit calls that may still begin                       *)
(*   Tracer  the client's Tracer field: "nil" or the SDK's tracer          *)
(*   traceShutdown  the client's shutdown callback: "nil" or tp.Shutdown   *)
(*   cfg     the client's Config                                           *)
(*   spans   the spans started so far, in the order of their start         *)
(*   tp      the TracerProvider and its batch span processor               *)
(*   cbCalls the number of times the shutdown callback was invoked         *)
(*   downs   Shutdown calls that may still begin                           *)
(***************************************************************************)
VARIABLES ref, lims, now, pc, loc, ret, gh, admits, budget, sets,
          Tracer, traceShutdown, cfg, spans, tp, cbCalls, downs

vars == <<ref, lims, now, pc, loc, ret, gh, admits, budget, sets,
          Tracer, traceShutdown, cfg, spans, tp, cbCalls, downs>>

\* The client's fields beside the limiter, and the trace pipeline.
clientVars == <<Tracer, traceShutdown, cfg, spans, tp, cbCalls, downs>>

\* The limiter and what belongs to it.
limiterVars == <<ref, lims, now, admits, budget, sets>>

FreeSlot == NewLimiter(0, 0)

\* getEnv: the variable of the environment, or the fallback.
getEnv(env, key, fallback) == IF key \in DOMAIN env THEN env[key] ELSE fallback

\* LoadConfig: the service name and the log endpoint of the environment.
LoadConfig(env) ==
  [ServiceName |-> getEnv(env, "ALLOY_SERVICE_NAME", "addi"),
   LogEndpoint |-> getEnv(env, "ALLOY_LOG_ENDPOINT", DefaultEndpoint)]

IdleLoc ==
  [op |-> "none", level |-> 0, msg |-> <<>>, ctx |-> "background", dl |-> InfDuration,
   l |-> Nil, wburst |-> 0, rTime |-> 0, rLimit |-> 0, argLimit |-> 0, argBurst |-> 0,
   tracerName |-> "", parent |-> 0, value |-> NoValue, jsonBytes |-> <<>>,
   attrs |-> <<>>, cfg |-> <<>>, tracer |-> "nil", closeFn |-> "nil",
   severity |-> "", attrMap |-> <<>>]

NoRet == ErrorResult(ErrNone)

\* took: units of the bucket the call's Wait holds; waited: the Wait slept;
\* avail: a whole token was in the bucket when the Wait reserved; admitted: the
\* Wait returned nil; refused: how the Wait failed (burst: capacity below 1;
\* ctx: context already done; deadline: the token is due after the deadline;
\* late, overtaken, cancel: cancelled while waiting, after its token was due,
\* with a later reservation behind it, or neither); sent: requests the call
\* has handed to client.Do;
\* had, preLimit, preBurst: the limiter SetRateLimit found when it began;
\* span, ctxSpan: the span handle a span operation got from Tracer.Start and
\* the span the derived context carries (0: none); endedBefore: the spans that
\* had ended when Shutdown was called; invoked: the callback invocations this
\* Shutdown made; cause: the error the returned error wraps; served: the
\* status of the response the endpoint gave client.Do (0: none); started:
\* the spans the call has started; tracerInits, logInits: the calls of
\* initTracerFn and initLogFn NewAlloyClient has made.
NoGh ==
  [took |-> 0, waited |-> FALSE, avail |-> FALSE, admitted |-> FALSE,
   refused |-> "none", sent |-> 0, had |-> FALSE, preLimit |-> 0, preBurst |-> 0,
   span |-> 0, ctxSpan |-> 0, endedBefore |-> {}, invoked |-> 0, cause |-> "none",
   served |-> 0, started |-> 0, tracerInits |-> 0, logInits |-> 0]

\* A provider that is not registered for the process.
NewTracerProviderLocal ==
  [isShutdown |-> FALSE, stopped |-> FALSE, released |-> FALSE, registered |-> FALSE]

\* initTracer: a TracerProvider with a batch span processor that has
\* neither been shut down nor stopped, and whose exporter is not released;
\* otel.SetTracerProvider has registered it for the process.
NewTracerProvider ==
  [isShutdown |-> FALSE, stopped |-> FALSE, released |-> FALSE, registered |-> TRUE]

\* No initTracer has run: there is no provider.
NoTracerProvider ==
  [isShutdown |-> FALSE, stopped |-> FALSE, released |-> FALSE, registered |-> FALSE]

\* The tracer and the shutdown callback initTracer returns.
InitTracer ==
  /\ Tracer = "sdk"
  /\ traceShutdown = "tp.Shutdown"
  /\ tp = NewTracerProvider

\* What NewAlloyClient returns: a limiter of 10 per second and burst 20.
InitConstructed ==
  /\ ref = 0
  /\ lims = [i \in LimIds |-> IF i = 0 THEN NewLimiter(DefaultRate, DefaultBurst) ELSE FreeSlot]
  /\ InitTracer

\* A client literal that sets no limiter: &AlloyClient{}.
InitLiteral ==
  /\ ref = Nil
  /\ lims = [i \in LimIds |-> FreeSlot]
  /\ Tracer = "nil"
  /\ traceShutdown = "nil"
  /\ tp = NoTracerProvider

InitCallers ==
  /\ now = 0
  /\ pc = [p \in Procs |-> "idle"]
  /\ loc = [p \in Procs |-> IdleLoc]
  /\ ret = [p \in Procs |-> NoRet]
  /\ gh = [p \in Procs |-> NoGh]
  /\ admits = 0
  /\ spans = <<>>
  /\ cbCalls = 0

Init ==
  /\ InitConstructed \/ InitLiteral
  /\ InitCallers
  /\ budget = MaxCalls
  /\ sets = MaxSets
  /\ cfg = LoadConfig(NoEnv)
  /\ downs = 0

\* A nil dereference panics, and a panic ends the process with all its callers.
NoPanic == \A q \in Procs : pc[q] # "panic"

\* sync.Mutex: Lock succeeds only on a free mutex.
MuFree(lim) == lim.mu = 0

CtxDone(p) == loc[p].ctx = "cancelled" \/ now >= loc[p].dl

\* The caller's operation returns r.
Finish(p, r) ==
  /\ pc' = [pc EXCEPT ![p] = "done"]
  /\ ret' = [ret EXCEPT ![p] = r]

(***************************************************************************)
(* AddLog(ctx, level, msg)                                                 *)
(***************************************************************************)
AddLogCall(p, level, msg, kind, value) ==
  /\ NoPanic /\ pc[p] = "idle" /\ budget > 0
  /\ budget' = budget - 1
  /\ pc' = [pc EXCEPT ![p] = "al_load"]
  /\ loc' = [loc EXCEPT ![p] = [IdleLoc EXCEPT !.op = "AddLog", !.level = level,
                 !.msg = msg, !.ctx = kind, !.value = value,
                 !.dl = IF kind = "deadline" THEN now + DeadlineTicks ELSE InfDuration]]
  /\ UNCHANGED <<ref, lims, now, ret, gh, admits, sets>>
  /\ UNCHANGED clientVars

\* ac.rateLimiter.Wait(ctx): the field is read; Wait on a nil limiter panics.
AddLogLoad(p) ==
  /\ NoPanic /\ pc[p] = "al_load"
  /\ IF ref = Nil
     THEN /\ pc' = [pc EXCEPT ![p] = "panic"]
          /\ loc' = loc
     ELSE /\ pc' = [pc EXCEPT ![p] = "w_cfg"]
          /\ loc' = [loc EXCEPT ![p].l = ref]
  /\ UNCHANGED <<ref, lims, now, ret, gh, admits, budget, sets>>
  /\ UNCHANGED clientVars

\* lim.mu.Lock() of a caller at pc from, which goes on at pc to.
Lock(p, from, to) ==
  /\ NoPanic /\ pc[p] = from
  /\ MuFree(lims[loc[p].l])
  /\ lims' = [lims EXCEPT ![loc[p].l].mu = p]
  /\ pc' = [pc EXCEPT ![p] = to]
  /\ UNCHANGED <<ref, now, loc, ret, gh, admits, budget, sets>>
  /\ UNCHANGED clientVars

WaitLockCfg(p) == Lock(p, "w_cfg", "w_cfg_cs")

\* A Wait without the check of n against burst.
BurstTooSmallNever(burst) == FALSE

\* wait: n > burst with n = 1 (and limit not rate.Inf) fails the Wait at once.
BurstTooSmall(burst) == 1 > burst

\* wait: burst and limit are read under the mutex; then a burst below 1 and a
\* context that is already done each end the Wait with an error.
WaitReadCfg(p) ==
  /\ NoPanic /\ pc[p] = "w_cfg_cs"
  /\ LET lim == lims[loc[p].l] IN
       /\ lims' = [lims EXCEPT ![loc[p].l].mu = 0]
       /\ loc' = [loc EXCEPT ![p].wburst = lim.burst]
       /\ IF BurstTooSmall(lim.burst)
          THEN /\ Finish(p, ErrorResult(ErrRateLimit))
               /\ gh' = [gh EXCEPT ![p].refused = "burst"]
          ELSE IF CtxDone(p)
          THEN /\ Finish(p, ErrorResult(ErrRateLimit))
               /\ gh' = [gh EXCEPT ![p].refused = "ctx"]
          ELSE /\ pc' = [pc EXCEPT ![p] = "w_res"]
               /\ UNCHANGED <<ret, gh>>
  /\ UNCHANGED <<ref, now, admits, budget, sets>>
  /\ UNCHANGED clientVars

WaitLockRes(p) == Lock(p, "w_res", "w_res_cs")

\* The Wait has returned nil: the level and the message are validated, the
\* record is built and marshalled and the request is made; what remains is
\* client.Do.
Admit(p) ==
  /\ admits' = admits + 1
  /\ LET e == ValidationError(loc[p].level, loc[p].msg)
         logRecord == LogRecord(now, loc[p].level, loc[p].msg, cfg, loc[p].value)
         m == Marshal(logRecord)
     IN IF e # ErrNone
        THEN Finish(p, ErrorResult(e)) /\ loc' = loc
        ELSE IF ~m.ok
        THEN Finish(p, ErrorResult(ErrMarshal)) /\ loc' = loc
        ELSE IF ~NewRequest(cfg.LogEndpoint)
        THEN /\ Finish(p, ErrorResult(ErrRequest))
             /\ loc' = [loc EXCEPT ![p].jsonBytes = m.bytes]
        ELSE /\ pc' = [pc EXCEPT ![p] = "post"]
             /\ ret' = ret
             /\ loc' = [loc EXCEPT ![p].jsonBytes = m.bytes]

\* reserveN under the mutex, then the Wait returns, fails or starts its timer.
WaitReserve(p) ==
  /\ NoPanic /\ pc[p] = "w_res_cs"
  /\ LET l == loc[p].l
         waitLimit == IF loc[p].dl < InfDuration THEN loc[p].dl - now ELSE InfDuration
         r == ReserveN(lims[l], now, waitLimit)
     IN /\ lims' = [lims EXCEPT ![l] = [r.lim EXCEPT !.mu = 0]]
        /\ IF ~r.ok
           THEN /\ Finish(p, ErrorResult(ErrRateLimit))
                /\ gh' = [gh EXCEPT ![p].refused = "deadline"]
                /\ UNCHANGED <<loc, admits>>
           ELSE IF r.timeToAct <= now
           THEN /\ Admit(p)
                /\ gh' = [gh EXCEPT ![p].took = TokenUnit, ![p].avail = r.avail,
                                    ![p].admitted = TRUE]
           ELSE /\ pc' = [pc EXCEPT ![p] = "waiting"]
                /\ gh' = [gh EXCEPT ![p].took = TokenUnit, ![p].avail = r.avail,
                                    ![p].waited = TRUE]
                /\ loc' = [loc EXCEPT ![p].rTime = r.timeToAct, ![p].rLimit = r.limit]
                /\ UNCHANGED <<ret, admits>>
  /\ UNCHANGED <<ref, now, budget, sets>>
  /\ UNCHANGED clientVars

\* The timer of a waiting caller fires.
WaitTimer(p) ==
  /\ NoPanic /\ pc[p] = "waiting" /\ now >= loc[p].rTime
  /\ Admit(p)
  /\ gh' = [gh EXCEPT ![p].admitted = TRUE]
  /\ UNCHANGED <<ref, lims, now, budget, sets>>
  /\ UNCHANGED clientVars

\* The context of a waiting caller is done: the reservation is to be cancelled.
WaitCtxDone(p) ==
  /\ NoPanic /\ pc[p] = "waiting" /\ CtxDone(p)
  /\ pc' = [pc EXCEPT ![p] = "w_cancel"]
  /\ UNCHANGED <<ref, lims, now, loc, ret, gh, admits, budget, sets>>
  /\ UNCHANGED clientVars

WaitLockCancel(p) == Lock(p, "w_cancel", "w_cancel_cs")

\* r.Cancel() under the mutex, then the Wait returns ctx.Err().
WaitCancel(p) ==
  /\ NoPanic /\ pc[p] = "w_cancel_cs"
  /\ LET l == loc[p].l
         restore == RestoreTokens(lims[l], loc[p].rTime, loc[p].rLimit, now)
     IN /\ lims' = [lims EXCEPT ![l] =
                      [CancelAt(lims[l], loc[p].rTime, loc[p].rLimit, now) EXCEPT !.mu = 0]]
        /\ gh' = [gh EXCEPT ![p].took = TokenUnit - restore,
                            ![p].refused = IF loc[p].rTime < now THEN "late"
                                           ELSE IF lims[l].lastEvent > loc[p].rTime
                                           THEN "overtaken"
                                           ELSE "cancel"]
  /\ Finish(p, ErrorResult(ErrRateLimit))
  /\ UNCHANGED <<ref, now, loc, admits, budget, sets>>
  /\ UNCHANGED clientVars

\* client.Do(req): the request carries ctx, so a done context fails it.
PostFail(p) ==
  /\ NoPanic /\ pc[p] = "post"
  /\ gh' = [gh EXCEPT ![p].sent = gh[p].sent + 1]
  /\ Finish(p, TransportFailure)
  /\ UNCHANGED <<ref, lims, now, loc, admits, budget, sets>>
  /\ UNCHANGED clientVars

\* client.Do(req) gives up at a redirect: the endpoint has answered, and Do
\* returns its last response with an error.
PostRedirect(p) ==
  /\ NoPanic /\ pc[p] = "post" /\ ~CtxDone(p)
  /\ gh' = [gh EXCEPT ![p].sent = gh[p].sent + 1, ![p].served = StatusTemporaryRedirect]
  /\ Finish(p, RedirectFailure(StatusTemporaryRedirect))
  /\ UNCHANGED <<ref, lims, now, loc, admits, budget, sets>>
  /\ UNCHANGED clientVars

\* client.Do(req) returns the response of the endpoint.
PostResponse(p, status) ==
  /\ NoPanic /\ pc[p] = "post" /\ ~CtxDone(p)
  /\ gh' = [gh EXCEPT ![p].sent = gh[p].sent + 1, ![p].served = status]
  /\ Finish(p, PostResult(status))
  /\ UNCHANGED <<ref, lims, now, loc, admits, budget, sets>>
  /\ UNCHANGED clientVars

\* The caller takes the result and is free for its next call.
Return(p) ==
  /\ NoPanic /\ pc[p] = "done"
  /\ pc' = [pc EXCEPT ![p] = "idle"]
  /\ loc' = [loc EXCEPT ![p] = IdleLoc]
  /\ ret' = [ret EXCEPT ![p] = NoRet]
  /\ gh' = [gh EXCEPT ![p] = NoGh]
  /\ UNCHANGED <<ref, lims, now, admits, budget, sets>>
  /\ UNCHANGED clientVars

\* The caller cancels the context it passed.
CtxCancel(p) ==
  /\ NoPanic /\ loc[p].ctx = "live" /\ pc[p] \notin {"idle", "done", "panic"}
  /\ loc' = [loc EXCEPT ![p].ctx = "cancelled"]
  /\ UNCHANGED <<ref, lims, now, pc, ret, gh, admits, budget, sets>>
  /\ UNCHANGED clientVars

(***************************************************************************)
(* SetRateLimit(limit, burst)                                              *)
(***************************************************************************)
\* Guards that let a zero through.
NonNegative(x) == x >= 0

\* The guards limit > 0 and burst > 0.
Positive(x) == x > 0

SetRateLimitCall(p, limit, burst) ==
  /\ NoPanic /\ pc[p] = "idle" /\ sets > 0
  /\ sets' = sets - 1
  /\ pc' = [pc EXCEPT ![p] = "srl_check"]
  /\ loc' = [loc EXCEPT ![p] = [IdleLoc EXCEPT !.op = "SetRateLimit",
                 !.argLimit = limit, !.argBurst = burst]]
  /\ UNCHANGED <<ref, lims, now, ret, gh, admits, budget>>
  /\ UNCHANGED clientVars

\* if ac.rateLimiter == nil: the field is read, under no lock.
SetRateLimitCheck(p) ==
  /\ NoPanic /\ pc[p] = "srl_check"
  /\ pc' = [pc EXCEPT ![p] = IF ref = Nil THEN "srl_new" ELSE "srl_limit"]
  /\ gh' = [gh EXCEPT ![p].had = ref # Nil,
                      ![p].preLimit = IF ref = Nil THEN 0 ELSE lims[ref].limit,
                      ![p].preBurst = IF ref = Nil THEN 0 ELSE lims[ref].burst]
  /\ UNCHANGED <<ref, lims, now, loc, ret, admits, budget, sets>>
  /\ UNCHANGED clientVars

\* ac.rateLimiter = rate.NewLimiter(limit, burst): the field is written, under
\* no lock.
SetRateLimitNew(p) ==
  /\ NoPanic /\ pc[p] = "srl_new"
  /\ ref' = p
  /\ lims' = [lims EXCEPT ![p] = NewLimiter(loc[p].argLimit, loc[p].argBurst)]
  /\ pc' = [pc EXCEPT ![p] = "srl_limit"]
  /\ UNCHANGED <<now, loc, ret, gh, admits, budget, sets>>
  /\ UNCHANGED clientVars

\* if limit > 0: ac.rateLimiter.SetLimit(limit) reads the field and locks.
SetLimitLock(p) ==
  /\ NoPanic /\ pc[p] = "srl_limit" /\ Positive(loc[p].argLimit)
  /\ MuFree(lims[ref])
  /\ lims' = [lims EXCEPT ![ref].mu = p]
  /\ loc' = [loc EXCEPT ![p].l = ref]
  /\ pc' = [pc EXCEPT ![p] = "srl_limit_cs"]
  /\ UNCHANGED <<ref, now, ret, gh, admits, budget, sets>>
  /\ UNCHANGED clientVars

SetLimitSkip(p) ==
  /\ NoPanic /\ pc[p] = "srl_limit" /\ ~Positive(loc[p].argLimit)
  /\ pc' = [pc EXCEPT ![p] = "srl_burst"]
  /\ UNCHANGED <<ref, lims, now, loc, ret, gh, admits, budget, sets>>
  /\ UNCHANGED clientVars

SetLimit(p) ==
  /\ NoPanic /\ pc[p] = "srl_limit_cs"
  /\ lims' = [lims EXCEPT ![loc[p].l] =
                [SetLimitAt(lims[loc[p].l], now, loc[p].argLimit) EXCEPT !.mu = 0]]
  /\ pc' = [pc EXCEPT ![p] = "srl_burst"]
  /\ UNCHANGED <<ref, now, loc, ret, gh, admits, budget, sets>>
  /\ UNCHANGED clientVars

\* if burst > 0: ac.rateLimiter.SetBurst(burst) reads the field and locks.
SetBurstLock(p) ==
  /\ NoPanic /\ pc[p] = "srl_burst" /\ Positive(loc[p].argBurst)
  /\ MuFree(lims[ref])
  /\ lims' = [lims EXCEPT ![ref].mu = p]
  /\ loc' = [loc EXCEPT ![p].l = ref]
  /\ pc' = [pc EXCEPT ![p] = "srl_burst_cs"]
  /\ UNCHANGED <<ref, now, ret, gh, admits, budget, sets>>
  /\ UNCHANGED clientVars

SetBurstSkip(p) ==
  /\ NoPanic /\ pc[p] = "srl_burst" /\ ~Positive(loc[p].argBurst)
  /\ pc' = [pc EXCEPT ![p] = "done"]
  /\ UNCHANGED <<ref, lims, now, loc, ret, gh, admits, budget, sets>>
  /\ UNCHANGED clientVars

SetBurst(p) ==
  /\ NoPanic /\ pc[p] = "srl_burst_cs"
  /\ lims' = [lims EXCEPT ![loc[p].l] =
                [SetBurstAt(lims[loc[p].l], now, loc[p].argBurst) EXCEPT !.mu = 0]]
  /\ pc' = [pc EXCEPT ![p] = "done"]
  /\ UNCHANGED <<ref, now, loc, ret, gh, admits, budget, sets>>
  /\ UNCHANGED clientVars

(***************************************************************************)
(* Spans: StartTrace / startTrace, AddSpan, AddSpanWithAttr.  Tracer.Start *)
(* and span.End are the SDK's; the batch span processor keeps the ended    *)
(* spans in a bounded queue, which a background worker exports.            *)
(***************************************************************************)
\* A client that takes every tracer for present.
TracerAbsentNever(t) == FALSE

\* if ac.Tracer == nil
TracerAbsent(t) == t = "nil"

\* A tracer that starts every span as a root.
TracerStartRoot(parent, by) ==
  [parent |-> 0, by |-> by, ended |-> FALSE, fate |-> "open", attrs |-> <<>>]

\* Tracer.Start(ctx, name): a new open span, the child of the span ctx carries
\* (parent 0: ctx carries none, the span is a root).
TracerStart(parent, by) ==
  [parent |-> parent, by |-> by, ended |-> FALSE, fate |-> "open", attrs |-> <<>>]

\* attribute.String(k, v)
String(k, v) == [Key |-> k, Value |-> v]

\* The attribute lists of the callers: none, one attribute, one with an
\* empty key, one key twice.
AttrLists ==
  {<<>>, <<String("k", "v")>>, <<String("", "v")>>, <<String("k", "v"), String("k", "w")>>}
Titles == {"", "title"}

\* KeyValue.Valid: the key is not empty.
Valid(kv) == Len(kv.Key) > 0

\* A span that keeps every attribute it is given.
SetAttributesAll(have, attrs) ==
  LET keys == {attrs[i].Key : i \in DOMAIN attrs}
      last(k) == CHOOSE i \in DOMAIN attrs :
                   attrs[i].Key = k /\ \A j \in DOMAIN attrs : attrs[j].Key = k => j <= i
  IN [k \in DOMAIN have \cup keys |-> IF k \in keys THEN attrs[last(k)].Value ELSE have[k]]

\* span.SetAttributes(attrs...) on a span that has the attributes have: an
\* attribute that is not valid is dropped, a key set again takes the later
\* value.
SetAttributes(have, attrs) ==
  LET keys == {attrs[i].Key : i \in {j \in DOMAIN attrs : Valid(attrs[j])}}
      last(k) == CHOOSE i \in DOMAIN attrs :
                   attrs[i].Key = k /\ \A j \in DOMAIN attrs : attrs[j].Key = k => j <= i
  IN [k \in DOMAIN have \cup keys |-> IF k \in keys THEN attrs[last(k)].Value ELSE have[k]]

\* The spans that wait in the batch span processor's queue.
Queued(sp) == {i \in DOMAIN sp : sp[i].fate = "queued"}

\* batchSpanProcessor.OnEnd: a stopped processor takes no span, a full queue
\* drops the span, otherwise the span is enqueued.
OnEnd(sp, t) ==
  IF t.stopped THEN "lost"
  ELSE IF Cardinality(Queued(sp)) >= MaxQueueSize THEN "dropped"
  ELSE "queued"

\* span.End(): the first End hands the span to the processor.
SpanEnd(sp, t, i) ==
  IF sp[i].ended THEN sp
  ELSE [sp EXCEPT ![i].ended = TRUE, ![i].fate = OnEnd(sp, t)]

\* The spans that have ended.
Ended(sp) == {i \in DOMAIN sp : sp[i].ended}

\* Operations that return the tracer's absence where they should return nil.
SuccessNever == ErrorResult(ErrTracer)

\* The error-free results of the span operations and of Shutdown.
Success == ErrorResult(ErrNone)

StartTraceCall(p, parent) ==
  /\ NoPanic /\ pc[p] = "idle" /\ Len(spans) < MaxSpans
  /\ pc' = [pc EXCEPT ![p] = "st_start"]
  /\ loc' = [loc EXCEPT ![p] = [IdleLoc EXCEPT !.op = "StartTrace", !.parent = parent]]
  /\ UNCHANGED <<ret, gh>>
  /\ UNCHANGED limiterVars
  /\ UNCHANGED clientVars

\* StartTrace / startTrace: the nil check, then Tracer.Start, whose context
\* and span are returned as they are.
StartTraceStart(p) ==
  /\ NoPanic /\ pc[p] = "st_start"
  /\ IF TracerAbsent(Tracer)
     THEN /\ Finish(p, ErrorResult(ErrTracer))
          /\ UNCHANGED <<gh, spans>>
     ELSE /\ spans' = Append(spans, TracerStart(loc[p].parent, "StartTrace"))
          /\ gh' = [gh EXCEPT ![p].span = Len(spans) + 1, ![p].ctxSpan = Len(spans) + 1]
          /\ Finish(p, Success)
  /\ UNCHANGED <<loc, Tracer, traceShutdown, cfg, tp, cbCalls, downs>>
  /\ UNCHANGED limiterVars

AddSpanCall(p, tracerName, parent, title, msgBody) ==
  /\ NoPanic /\ pc[p] = "idle" /\ Len(spans) < MaxSpans
  /\ pc' = [pc EXCEPT ![p] = "as_check"]
  /\ loc' = [loc EXCEPT ![p] = [IdleLoc EXCEPT !.op = "AddSpan",
                 !.tracerName = tracerName, !.parent = parent,
                 !.attrs = <<String(title, msgBody)>>]]
  /\ UNCHANGED <<ret, gh>>
  /\ UNCHANGED limiterVars
  /\ UNCHANGED clientVars

\* AddSpan: the nil check, then the check of the tracer name.
AddSpanCheck(p) ==
  /\ NoPanic /\ pc[p] = "as_check"
  /\ IF TracerAbsent(Tracer)
     THEN Finish(p, ErrorResult(ErrTracer))
     ELSE IF Len(loc[p].tracerName) = 0
     THEN Finish(p, ErrorResult(ErrTracerName))
     ELSE pc' = [pc EXCEPT ![p] = "as_start"] /\ ret' = ret
  /\ UNCHANGED <<loc, gh>>
  /\ UNCHANGED limiterVars
  /\ UNCHANGED clientVars

AddSpanWithAttrCall(p, tracerName, parent, attrs) ==
  /\ NoPanic /\ pc[p] = "idle" /\ Len(spans) < MaxSpans
  /\ pc' = [pc EXCEPT ![p] = "asw_check"]
  /\ loc' = [loc EXCEPT ![p] = [IdleLoc EXCEPT !.op = "AddSpanWithAttr",
                 !.tracerName = tracerName, !.parent = parent, !.attrs = attrs]]
  /\ UNCHANGED <<ret, gh>>
  /\ UNCHANGED limiterVars
  /\ UNCHANGED clientVars

\* AddSpanWithAttr: the nil check only.
AddSpanWithAttrCheck(p) ==
  /\ NoPanic /\ pc[p] = "asw_check"
  /\ IF TracerAbsent(Tracer)
     THEN Finish(p, ErrorResult(ErrTracer))
     ELSE pc' = [pc EXCEPT ![p] = "as_start"] /\ ret' = ret
  /\ UNCHANGED <<loc, gh>>
  /\ UNCHANGED limiterVars
  /\ UNCHANGED clientVars

\* _, span, err := ac.startTrace(ctx, tracerName)
AddSpanStart(p) ==
  /\ NoPanic /\ pc[p] = "as_start"
  /\ IF TracerAbsent(Tracer)
     THEN /\ Finish(p, ErrorResult(ErrStart))
          /\ UNCHANGED <<gh, spans>>
     ELSE /\ spans' = Append(spans, TracerStart(loc[p].parent, loc[p].op))
          /\ gh' = [gh EXCEPT ![p].span = Len(spans) + 1,
                              ![p].started = gh[p].started + 1]
          /\ pc' = [pc EXCEPT ![p] = "as_end"]
          /\ ret' = ret
  /\ UNCHANGED <<loc, Tracer, traceShutdown, cfg, tp, cbCalls, downs>>
  /\ UNCHANGED limiterVars

\* span.SetAttributes(...); span.End(); return nil
AddSpanEnd(p) ==
  /\ NoPanic /\ pc[p] = "as_end"
  /\ LET i == gh[p].span
         sp == [spans EXCEPT ![i].attrs = SetAttributes(spans[i].attrs, loc[p].attrs)]
     IN spans' = SpanEnd(sp, tp, i)
  /\ Finish(p, Success)
  /\ UNCHANGED <<loc, gh, Tracer, traceShutdown, cfg, tp, cbCalls, downs>>
  /\ UNCHANGED limiterVars

\* The caller of StartTrace ends the span it was given, once StartTrace has
\* returned it: span.End().
CallerEnd(i) ==
  /\ NoPanic /\ i \in DOMAIN spans
  /\ spans[i].by = "StartTrace" /\ ~spans[i].ended
  /\ \A p \in Procs : gh[p].span # i
  /\ spans' = SpanEnd(spans, tp, i)
  /\ UNCHANGED <<pc, loc, ret, gh, Tracer, traceShutdown, cfg, tp, cbCalls, downs>>
  /\ UNCHANGED limiterVars

\* A processor that hands nothing to the exporter.
ExportSpansNothing(sp) == sp

\* exportSpans: the spans of the queue are handed to the exporter.
ExportSpans(sp) ==
  [i \in DOMAIN sp |-> IF sp[i].fate = "queued" THEN [sp[i] EXCEPT !.fate = "exported"]
                       ELSE sp[i]]

\* The batch span processor's worker exports the queue on its own schedule.
BatchExport ==
  /\ NoPanic /\ ~tp.stopped /\ Queued(spans) # {}
  /\ spans' = ExportSpans(spans)
  /\ UNCHANGED <<pc, loc, ret, gh, Tracer, traceShutdown, cfg, tp, cbCalls, downs>>
  /\ UNCHANGED limiterVars

(***************************************************************************)
(* Shutdown(ctx).  The callback of a constructed client is the SDK's       *)
(* TracerProvider.Shutdown, which shuts the batch span processor down      *)
(* once: the processor stops, drains its queue to the exporter and shuts   *)
(* the exporter down.                                                      *)
(***************************************************************************)
ShutdownCall(p, kind) ==
  /\ NoPanic /\ pc[p] = "idle" /\ downs > 0
  /\ downs' = downs - 1
  /\ pc' = [pc EXCEPT ![p] = "sd_check"]
  /\ loc' = [loc EXCEPT ![p] = [IdleLoc EXCEPT !.op = "Shutdown", !.ctx = kind]]
  /\ gh' = [gh EXCEPT ![p].endedBefore = Ended(spans)]
  /\ UNCHANGED <<ret, Tracer, traceShutdown, cfg, spans, tp, cbCalls>>
  /\ UNCHANGED limiterVars

\* if ac.traceShutdown != nil
ShutdownAbsent(cb) == cb = "nil"

\* Without a callback Shutdown returns nil; with one it invokes it.
ShutdownCheck(p) ==
  /\ NoPanic /\ pc[p] = "sd_check"
  /\ IF ShutdownAbsent(traceShutdown)
     THEN /\ Finish(p, Success)
          /\ UNCHANGED <<gh, cbCalls>>
     ELSE /\ pc' = [pc EXCEPT ![p] = "sd_callback"]
          /\ cbCalls' = cbCalls + 1
          /\ gh' = [gh EXCEPT ![p].invoked = gh[p].invoked + 1]
          /\ ret' = ret
  /\ UNCHANGED <<loc, Tracer, traceShutdown, cfg, spans, tp, downs>>
  /\ UNCHANGED limiterVars

\* The error Shutdown makes of the callback's error err.
ShutdownError(err) == ErrShutdown \o ": [failed to shutdown tracer: " \o err \o "]"

\* A Shutdown that swallows the callback's error.
ShutdownResultNil(err) == Success

\* Shutdown's result for the error err of the callback ("none": nil).
ShutdownResult(err) ==
  IF err # ErrNone THEN ErrorResult(ShutdownError(err)) ELSE Success

\* TracerProvider.Shutdown on a provider that is already shut down: nil.
ProviderShutdownAgain(p) ==
  /\ NoPanic /\ pc[p] = "sd_callback" /\ tp.isShutdown
  /\ Finish(p, ShutdownResult(ErrNone))
  /\ UNCHANGED <<loc, gh>>
  /\ UNCHANGED limiterVars
  /\ UNCHANGED clientVars

\* TracerProvider.Shutdown with a context that is done: ctx.Err().  The
\* processor is not shut down; releases of the SDK differ in whether the
\* provider then counts as shut down.
ProviderShutdownCanceled(p, marks) ==
  /\ NoPanic /\ pc[p] = "sd_callback" /\ ~tp.isShutdown
  /\ loc[p].ctx = "cancelled"
  /\ tp' = [tp EXCEPT !.isShutdown = marks]
  /\ gh' = [gh EXCEPT ![p].cause = ErrCanceled]
  /\ Finish(p, ShutdownResult(ErrCanceled))
  /\ UNCHANGED <<loc, Tracer, traceShutdown, cfg, spans, cbCalls, downs>>
  /\ UNCHANGED limiterVars

\* TracerProvider.Shutdown: the processor stops, its queue is drained to the
\* exporter, the exporter is shut down; nil.
ProviderShutdown(p) ==
  /\ NoPanic /\ pc[p] = "sd_callback" /\ ~tp.isShutdown
  /\ loc[p].ctx # "cancelled"
  /\ tp' = [tp EXCEPT !.isShutdown = TRUE, !.stopped = TRUE, !.released = TRUE]
  /\ spans' = ExportSpans(spans)
  /\ Finish(p, ShutdownResult(ErrNone))
  /\ UNCHANGED <<loc, gh, Tracer, traceShutdown, cfg, cbCalls, downs>>
  /\ UNCHANGED limiterVars

(***************************************************************************)
(* AddLog(ctx, level, msg, attrs...): the variant with attributes.        *)
(***************************************************************************)
\* The values a caller passes as attributes: strings and an int.
Anys == {GoString(<<"a">>), GoString(<<"b">>), [t |-> "int", v |-> 1]}

\* The attribute lists of up to MaxAttrs values.
AttrArgs == UNION {[1..n -> Anys] : n \in 0..MaxAttrs}

\* attrMap[key] = value
MapSet(attrMap, key, value) ==
  [k \in DOMAIN attrMap \cup {key} |-> IF k = key THEN value ELSE attrMap[k]]

\* The loop over attrs from the index i (counted from 0) on: a key that is
\* no string is skipped, and the value of a string key is read at i+1, which
\* is out of range when the key is the last element.
RECURSIVE AttrLoop(_, _, _)
AttrLoop(attrs, i, attrMap) ==
  IF ~(i < Len(attrs)) THEN [panic |-> FALSE, attrMap |-> attrMap]
  ELSE IF attrs[i + 1].t # "string" THEN AttrLoop(attrs, i + 2, attrMap)
  ELSE IF ~(i + 1 < Len(attrs)) THEN [panic |-> TRUE, attrMap |-> attrMap]
  ELSE AttrLoop(attrs, i + 2, MapSet(attrMap, attrs[i + 1].v, attrs[i + 2]))

\* The record of the variant: the attributes are an object of their own.
AttrRecord(t, level, msg, attrMap) ==
  [timestamp |-> GoString(RFC3339(t)),
   severity_text |-> GoString(<<level>>),
   body |-> GoString(msg),
   attributes |-> [t |-> "map", v |-> attrMap]]

\* json.Marshal of the variant's record.
MarshalAttrRecord(rec) ==
  IF \E k \in DOMAIN rec.attributes.v : Unsupported(rec.attributes.v[k])
  THEN [ok |-> FALSE, bytes |-> <<>>]
  ELSE [ok |-> TRUE,
        bytes |-> [k \in DOMAIN rec |->
                     IF k = "attributes"
                     THEN [t |-> "object",
                           v |-> [a \in DOMAIN rec[k].v |-> MarshalValue(rec[k].v[a])]]
                     ELSE MarshalValue(rec[k])]]

AddLogAttrsCall(p, level, msg, attrs) ==
  /\ NoPanic /\ pc[p] = "idle" /\ budget > 0
  /\ budget' = budget - 1
  /\ pc' = [pc EXCEPT ![p] = "av_build"]
  /\ loc' = [loc EXCEPT ![p] = [IdleLoc EXCEPT !.op = "AddLogAttrs", !.severity = level,
                 !.msg = msg, !.attrs = attrs]]
  /\ UNCHANGED <<ref, lims, now, ret, gh, admits, sets>>
  /\ UNCHANGED clientVars

\* The attributes are read into attrMap, the record is built and marshalled
\* and the request is made; what remains is client.Do.
AddLogAttrsBuild(p) ==
  /\ NoPanic /\ pc[p] = "av_build"
  /\ LET r == AttrLoop(loc[p].attrs, 0, <<>>)
         m == MarshalAttrRecord(AttrRecord(now, loc[p].severity, loc[p].msg, r.attrMap))
     IN /\ loc' = [loc EXCEPT ![p].attrMap = r.attrMap,
                              ![p].jsonBytes = IF r.panic THEN <<>> ELSE m.bytes]
        /\ IF r.panic
           THEN pc' = [pc EXCEPT ![p] = "panic"] /\ ret' = ret
           ELSE IF ~m.ok
           THEN Finish(p, ErrorResult(ErrMarshal))
           ELSE IF ~NewRequest(cfg.LogEndpoint)
           THEN Finish(p, ErrorResult(ErrRequest))
           ELSE pc' = [pc EXCEPT ![p] = "post"] /\ ret' = ret
  /\ UNCHANGED <<ref, lims, now, gh, admits, budget, sets>>
  /\ UNCHANGED clientVars

(***************************************************************************)
(* NewAlloyClient(ctx).                                                    *)
(***************************************************************************)
\* The callers hold a client once NewAlloyClient has returned one.
HasClient == ref # Nil /\ ~TracerAbsent(Tracer)

\* The zero Config.
ZeroConfig == [ServiceName |-> "", LogEndpoint |-> ""]

\* What initTracer can come to: its exporter or its resource cannot be
\* made, or it succeeds.
TracerOutcomes == {ErrNone, ErrExporter, ErrResource}

\* A constructor that returns a client with the error.
NewFailureClient(err) == [client |-> "client", err |-> err]

\* return nil, err
NewFailure(err) == [client |-> "nil", err |-> err]

\* return &AlloyClient{...}, nil
NewSuccess == [client |-> "client", err |-> ErrNone]

\* cfg := LoadConfig()
NewAlloyClientCall(p, env) ==
  /\ NoPanic /\ pc[p] = "idle" /\ ~HasClient
  /\ pc' = [pc EXCEPT ![p] = "new_tracer"]
  /\ loc' = [loc EXCEPT ![p] = [IdleLoc EXCEPT !.op = "NewAlloyClient",
                 !.cfg = LoadConfig(env)]]
  /\ UNCHANGED <<ret, gh>>
  /\ UNCHANGED limiterVars
  /\ UNCHANGED clientVars

\* tracer, closeFn, err := initTracerFn(ctx, cfg): initTracer fails before
\* it makes the provider, or makes it, registers it and returns the tracer
\* and the provider's Shutdown.
NewInitTracer(p, outcome) ==
  /\ NoPanic /\ pc[p] = "new_tracer"
  /\ IF outcome # ErrNone
     THEN /\ Finish(p, NewFailure(outcome))
          /\ gh' = [gh EXCEPT ![p].tracerInits = gh[p].tracerInits + 1,
                              ![p].cause = outcome]
          /\ UNCHANGED <<loc, tp>>
     ELSE /\ tp' = NewTracerProvider
          /\ loc' = [loc EXCEPT ![p].tracer = "sdk", ![p].closeFn = "tp.Shutdown"]
          /\ gh' = [gh EXCEPT ![p].tracerInits = gh[p].tracerInits + 1]
          /\ pc' = [pc EXCEPT ![p] = "new_log"]
          /\ ret' = ret
  /\ UNCHANGED <<Tracer, traceShutdown, cfg, spans, cbCalls, downs>>
  /\ UNCHANGED limiterVars

\* logger, err := initLogFn(): on failure the error is returned; otherwise
\* the limiter is made and the client is returned.
NewInitLog(p, ok) ==
  /\ NoPanic /\ pc[p] = "new_log"
  /\ IF ~ok
     THEN /\ Finish(p, NewFailure(ErrLogDir))
          /\ gh' = [gh EXCEPT ![p].logInits = gh[p].logInits + 1, ![p].cause = ErrLogDir]
          /\ UNCHANGED <<ref, lims, Tracer, traceShutdown, cfg>>
     ELSE /\ ref' = 0
          /\ lims' = [lims EXCEPT ![0] = NewLimiter(DefaultRate, DefaultBurst)]
          /\ Tracer' = loc[p].tracer
          /\ traceShutdown' = loc[p].closeFn
          /\ cfg' = loc[p].cfg
          /\ gh' = [gh EXCEPT ![p].logInits = gh[p].logInits + 1]
          /\ Finish(p, NewSuccess)
  /\ UNCHANGED <<now, loc, admits, budget, sets, spans, tp, cbCalls, downs>>

(***************************************************************************)
(* The clock.                                                              *)
(***************************************************************************)
TimerDue == \E p \in Procs : pc[p] = "waiting" /\ now < loc[p].rTime /\ loc[p].rTime < InfDuration

Tick ==
  /\ NoPanic
  /\ now < MaxTime \/ TimerDue
  /\ now' = now + 1
  /\ UNCHANGED <<ref, lims, pc, loc, ret, gh, admits, budget, sets>>
  /\ UNCHANGED clientVars

(***************************************************************************)
(* Spec: caller 1 reconfigures the limiter with SetRateLimit while caller  *)
(* 2 logs with AddLog, on a client NewAlloyClient returned or on a client  *)
(* literal.                                                                *)
(***************************************************************************)
AddLogStep(p) ==
  \/ AddLogLoad(p)
  \/ WaitLockCfg(p)
  \/ WaitReadCfg(p)
  \/ WaitLockRes(p)
  \/ WaitReserve(p)
  \/ WaitTimer(p)
  \/ WaitCtxDone(p)
  \/ WaitLockCancel(p)
  \/ WaitCancel(p)
  \/ PostFail(p)
  \/ PostRedirect(p)
  \/ \E status \in Statuses : PostResponse(p, status)
  \/ CtxCancel(p)

SetRateLimitStep(p) ==
  \/ SetRateLimitCheck(p)
  \/ SetRateLimitNew(p)
  \/ SetLimitLock(p)
  \/ SetLimitSkip(p)
  \/ SetLimit(p)
  \/ SetBurstLock(p)
  \/ SetBurstSkip(p)
  \/ SetBurst(p)

Next ==
  \/ \E limit \in RateArgs, burst \in BurstArgs : SetRateLimitCall(1, limit, burst)
  \/ SetRateLimitStep(1)
  \/ \E level \in Levels, msg \in Msgs, kind \in CtxKinds : AddLogCall(2, level, msg, kind, NoValue)
  \/ AddLogStep(2)
  \/ \E p \in Procs : Return(p)
  \/ Tick

Spec == Init /\ [][Next]_vars

(***************************************************************************)
(* SeqSpec: one caller makes its AddLog and SetRateLimit calls one after   *)
(* the other.                                                              *)
(***************************************************************************)
SeqInit ==
  /\ InitConstructed \/ InitLiteral
  /\ InitCallers
  /\ budget = SeqCalls
  /\ sets = SeqSets
  /\ cfg = LoadConfig(NoEnv)
  /\ downs = 0

SeqNext ==
  \/ \E limit \in RateArgs, burst \in BurstArgs : SetRateLimitCall(1, limit, burst)
  \/ SetRateLimitStep(1)
  \/ \E level \in Levels, msg \in Msgs, kind \in CtxKinds : AddLogCall(1, level, msg, kind, NoValue)
  \/ AddLogStep(1)
  \/ Return(1)
  \/ Tick

SeqSpec == SeqInit /\ [][SeqNext]_vars

(***************************************************************************)
(* InstallSpec: one caller calls SetRateLimit on a client literal, which   *)
(* has no limiter, with rates and bursts of either sign, and then logs.    *)
(***************************************************************************)
InstallInit ==
  /\ InitLiteral
  /\ InitCallers
  /\ budget = SeqCalls
  /\ sets = SeqSets
  /\ cfg = ZeroConfig
  /\ downs = 0

InstallNext ==
  \/ \E limit \in InstallRates, burst \in InstallBursts : SetRateLimitCall(1, limit, burst)
  \/ SetRateLimitStep(1)
  \/ \E kind \in CtxKinds : AddLogCall(1, InfoLevel, <<"hello">>, kind, NoValue)
  \/ AddLogStep(1)
  \/ Return(1)
  \/ Tick

InstallSpec == InstallInit /\ [][InstallNext]_vars

(***************************************************************************)
(* LogSpec: two callers log concurrently on a client whose limiter a       *)
(* SetRateLimit(limit, burst) on a client literal has just installed: a    *)
(* full bucket whose rate and burst stay as they are.                      *)
(***************************************************************************)
LogInit ==
  /\ \E limit \in RateArgs, burst \in {0, 1} :
       /\ ref = 1
       /\ lims = [i \in LimIds |-> IF i = 1 THEN NewLimiter(limit, burst) ELSE FreeSlot]
  /\ InitCallers
  /\ InitTracer
  /\ budget = LogCalls
  /\ sets = 0
  /\ cfg = LoadConfig(NoEnv)
  /\ downs = 0

LogNext ==
  \/ \E p \in Procs, kind \in CtxKinds : AddLogCall(p, InfoLevel, <<"hello">>, kind, NoValue)
  \/ \E p \in Procs : AddLogStep(p)
  \/ \E p \in Procs : Return(p)
  \/ Tick

LogSpec == LogInit /\ [][LogNext]_vars

(***************************************************************************)
(* FairLogSpec: two callers log concurrently on a limiter of burst 1, on a *)
(* clock that goes on and with timers that fire.                           *)
(***************************************************************************)
FairLogInit ==
  /\ \E limit \in RateArgs :
       /\ ref = 1
       /\ lims = [i \in LimIds |-> IF i = 1 THEN NewLimiter(limit, 1) ELSE FreeSlot]
  /\ InitCallers
  /\ InitTracer
  /\ budget = FairCalls
  /\ sets = 0
  /\ cfg = LoadConfig(NoEnv)
  /\ downs = 0

FairLogSpec ==
  /\ FairLogInit /\ [][LogNext]_vars
  /\ WF_vars(Tick) /\ \A p \in Procs : WF_vars(WaitTimer(p))

(***************************************************************************)
(* DefaultSpec: one caller logs on the client NewAlloyClient returned,     *)
(* often enough to use up the default burst.                               *)
(***************************************************************************)
DefaultInit ==
  /\ InitConstructed
  /\ InitCallers
  /\ budget = DefaultBurst + ExtraCalls
  /\ sets = 0
  /\ cfg = LoadConfig(NoEnv)
  /\ downs = 0

DefaultNext ==
  \/ \E msg \in Msgs, kind \in CtxKinds : AddLogCall(1, InfoLevel, msg, kind, NoValue)
  \/ AddLogStep(1)
  \/ Return(1)
  \/ TimerDue /\ Tick

DefaultSpec == DefaultInit /\ [][DefaultNext]_vars

(***************************************************************************)
(* LifeSpec: one caller makes the client with NewAlloyClient and then      *)
(* starts and adds spans, logs and shuts the client down, one call after   *)
(* the other.                                                              *)
(***************************************************************************)
LifeInit ==
  /\ InitLiteral
  /\ InitCallers
  /\ budget = LifeCalls
  /\ sets = 0
  /\ cfg = ZeroConfig
  /\ downs = MaxDowns

LifeNext ==
  \/ \E env \in Envs : NewAlloyClientCall(1, env)
  \/ \E outcome \in TracerOutcomes : NewInitTracer(1, outcome)
  \/ \E ok \in BOOLEAN : NewInitLog(1, ok)
  \/ HasClient /\ StartTraceCall(1, 0)
  \/ HasClient /\ AddSpanCall(1, "span1", 0, "title", "body")
  \/ HasClient /\ ShutdownCall(1, "background")
  \/ HasClient /\ AddLogCall(1, InfoLevel, <<"hello">>, "background", NoValue)
  \/ StartTraceStart(1)
  \/ AddSpanCheck(1)
  \/ AddSpanStart(1)
  \/ AddSpanEnd(1)
  \/ ShutdownCheck(1)
  \/ ProviderShutdownAgain(1)
  \/ ProviderShutdown(1)
  \/ AddLogLoad(1)
  \/ WaitLockCfg(1)
  \/ WaitReadCfg(1)
  \/ WaitLockRes(1)
  \/ WaitReserve(1)
  \/ PostFail(1)
  \/ \E status \in Statuses : PostResponse(1, status)
  \/ Return(1)
  \/ \E i \in DOMAIN spans : CallerEnd(i)
  \/ BatchExport

LifeSpec == LifeInit /\ [][LifeNext]_vars

(***************************************************************************)
(* AttrSpec: one caller logs through the variant with attributes, with     *)
(* every attribute list of up to MaxAttrs values.                          *)
(***************************************************************************)
AttrInit ==
  /\ InitConstructed
  /\ InitCallers
  /\ budget = AttrCalls
  /\ sets = 0
  /\ cfg = LoadConfig(NoEnv)
  /\ downs = 0

AttrNext ==
  \/ \E attrs \in AttrArgs : AddLogAttrsCall(1, "info", <<"hello">>, attrs)
  \/ AddLogAttrsBuild(1)
  \/ PostFail(1)
  \/ PostRedirect(1)
  \/ \E status \in Statuses : PostResponse(1, status)
  \/ Return(1)

AttrSpec == AttrInit /\ [][AttrNext]_vars

(***************************************************************************)
(* HttpSpec: one caller logs on the client NewAlloyClient returned in an   *)
(* environment that may set the log endpoint or the service name, with     *)
(* messages and request ids of every kind; the bucket is full, so no call  *)
(* waits.                                                                  *)
(***************************************************************************)
HttpInit ==
  /\ InitConstructed
  /\ InitCallers
  /\ budget = HttpCalls
  /\ sets = 0
  /\ \E env \in Envs : cfg = LoadConfig(env)
  /\ downs = 0

HttpStep(p) ==
  \/ AddLogLoad(p)
  \/ WaitLockCfg(p)
  \/ WaitReadCfg(p)
  \/ WaitLockRes(p)
  \/ WaitReserve(p)
  \/ PostFail(p)
  \/ PostRedirect(p)
  \/ \E status \in HttpStatuses : PostResponse(p, status)
  \/ CtxCancel(p)

HttpNext ==
  \/ \E level \in Levels, msg \in Msgs \cup RawMsgs, kind \in CtxKinds, value \in RequestIds :
       AddLogCall(1, level, msg, kind, value)
  \/ HttpStep(1)
  \/ Return(1)
  \/ Tick

HttpSpec == HttpInit /\ [][HttpNext]_vars

(***************************************************************************)
(* TraceSpec: caller 1 starts and ends spans while caller 2 shuts the       *)
(* client down, on the client NewAlloyClient returned or on a client       *)
(* literal, and the batch span processor exports in the background.        *)
(***************************************************************************)
TraceInit ==
  /\ InitConstructed \/ InitLiteral
  /\ InitCallers
  /\ budget = 0
  /\ sets = 0
  /\ cfg = LoadConfig(NoEnv)
  /\ downs = MaxDowns

SpanStep(p) ==
  \/ StartTraceStart(p)
  \/ AddSpanCheck(p)
  \/ AddSpanWithAttrCheck(p)
  \/ AddSpanStart(p)
  \/ AddSpanEnd(p)

ShutdownStep(p) ==
  \/ ShutdownCheck(p)
  \/ ProviderShutdownAgain(p)
  \/ \E marks \in BOOLEAN : ProviderShutdownCanceled(p, marks)
  \/ ProviderShutdown(p)

TraceNext ==
  \/ \E parent \in 0..Len(spans) : StartTraceCall(1, parent)
  \/ \E name \in TracerNames, parent \in 0..Len(spans) :
       AddSpanCall(1, name, parent, "title", "body")
  \/ \E parent \in 0..Len(spans) : AddSpanWithAttrCall(1, "span1", parent, <<>>)
  \/ SpanStep(1)
  \/ \E kind \in ShutdownCtxKinds : ShutdownCall(2, kind)
  \/ ShutdownStep(2)
  \/ \E p \in Procs : Return(p)
  \/ \E i \in DOMAIN spans : CallerEnd(i)
  \/ BatchExport

TraceSpec == TraceInit /\ [][TraceNext]_vars

(***************************************************************************)
(* SpanSpec: one caller adds spans, with attributes of every kind, and     *)
(* shuts down the client NewAlloyClient returned, one call after the       *)
(* other, while the batch span processor exports in the background.        *)
(***************************************************************************)
SpanInit ==
  /\ InitConstructed
  /\ InitCallers
  /\ budget = 0
  /\ sets = 0
  /\ cfg = LoadConfig(NoEnv)
  /\ downs = MaxDowns

SpanNext ==
  \/ \E name \in TracerNames, parent \in 0..Len(spans), title \in Titles :
       AddSpanCall(1, name, parent, title, "body")
  \/ \E parent \in 0..Len(spans), attrs \in AttrLists :
       AddSpanWithAttrCall(1, "span1", parent, attrs)
  \/ AddSpanCheck(1)
  \/ AddSpanWithAttrCheck(1)
  \/ AddSpanStart(1)
  \/ AddSpanEnd(1)
  \/ ShutdownCall(1, "background")
  \/ ShutdownCheck(1)
  \/ ProviderShutdownAgain(1)
  \/ ProviderShutdown(1)
  \/ Return(1)
  \/ BatchExport

SpanSpec == SpanInit /\ [][SpanNext]_vars

(***************************************************************************)
(* Properties.                                                             *)
(***************************************************************************)
\* The AddLog call of caller p has returned.
AddLogDone(p) == pc[p] = "done" /\ loc[p].op = "AddLog"

\* The Wait of caller p's AddLog has failed.
Refused(p) == AddLogDone(p) /\ gh[p].refused # "none"

\* C1: AddLog validates its arguments before it turns to the rate limiter: a
\* call with an invalid level or an empty message returns the validation
\* error and leaves the limiter's tokens as they were.
C1_ValidationBeforeLimiter ==
  \A p \in Procs :
    AddLogDone(p) /\ ValidationError(loc[p].level, loc[p].msg) # ErrNone
      => /\ ret[p] = ErrorResult(ValidationError(loc[p].level, loc[p].msg))
         /\ gh[p].took = 0
         /\ gh[p].refused = "none"

\* C2: an AddLog call with a level outside Debug..Panic returns 'invalid log
\* level' and sends no request.
C2_InvalidLevelRejected ==
  \A p \in Procs :
    AddLogDone(p) /\ (loc[p].level < DebugLevel \/ loc[p].level > PanicLevel)
      => ret[p].err = ErrLevel /\ ~ret[p].hasResp /\ gh[p].sent = 0

\* C3: an AddLog call with an empty message returns a validation error and
\* sends no request.
C3_EmptyMessageRejected ==
  \A p \in Procs :
    AddLogDone(p) /\ Len(loc[p].msg) = 0
      => ret[p].err \in {ErrLevel, ErrEmpty} /\ ~ret[p].hasResp /\ gh[p].sent = 0

BurstRead(p) ==
  loc[p].op = "AddLog" /\ pc[p] \notin {"idle", "al_load", "w_cfg", "w_cfg_cs", "panic"}

\* C5 as the specification states it: a Wait that finds burst zero blocks, so
\* its AddLog has not returned unless the context is done.
C5_ZeroBurstBlocks ==
  \A p \in Procs : AddLogDone(p) /\ loc[p].wburst = 0 => CtxDone(p)

\* C5: a Wait that finds burst zero never blocks: it fails at its check of
\* the burst, whatever the context, and its AddLog returns rate limit
\* exceeded at once, having waited for nothing, taken no token and sent no
\* request.
C5_ZeroBurstFailsAtOnce ==
  \A p \in Procs :
    BurstRead(p) /\ loc[p].wburst <= 0
      => /\ pc[p] = "done"
         /\ ret[p] = ErrorResult(ErrRateLimit)
         /\ gh[p].refused = "burst"
         /\ ~gh[p].waited /\ gh[p].took = 0 /\ gh[p].sent = 0

\* An AddLog with a context that is never done has returned rate limit
\* exceeded from a limiter of burst zero.
C5_Witness ==
  \E p \in Procs :
    /\ AddLogDone(p) /\ loc[p].wburst = 0 /\ loc[p].ctx = "background"
    /\ ret[p].err = ErrRateLimit /\ lims[loc[p].l].burst = 0

\* C8: when SetRateLimit(limit, burst) returns on a client that had a
\* limiter, the limiter's rate is limit if limit > 0 and as it was otherwise,
\* and its burst is burst if burst > 0 and as it was otherwise.
C8_SetRateLimitFrame ==
  \A p \in Procs :
    pc[p] = "done" /\ loc[p].op = "SetRateLimit" /\ gh[p].had
      => /\ lims[ref].limit = IF loc[p].argLimit > 0 THEN loc[p].argLimit ELSE gh[p].preLimit
         /\ lims[ref].burst = IF loc[p].argBurst > 0 THEN loc[p].argBurst ELSE gh[p].preBurst

\* SetRateLimit(0, 15) has returned on the limiter of NewAlloyClient: the
\* rate is still 10 and the burst is 15.
C8_Witness ==
  \E p \in Procs :
    /\ pc[p] = "done" /\ loc[p].op = "SetRateLimit" /\ gh[p].had
    /\ loc[p].argLimit = 0 /\ loc[p].argBurst = 15
    /\ gh[p].preLimit = DefaultRate /\ gh[p].preBurst = DefaultBurst
    /\ lims[ref].limit = DefaultRate /\ lims[ref].burst = 15

\* The caller holds the mutex of the limiter loc[p].l.
InCriticalSection(p) ==
  pc[p] \in {"w_cfg_cs", "w_res_cs", "w_cancel_cs", "srl_limit_cs", "srl_burst_cs"}

\* C9: SetRateLimit's accesses to the limiter exclude those of a concurrent
\* AddLog: no caller is about to write the client's limiter reference while
\* another is about to read it, and no two callers are inside one limiter's
\* critical section.
C9_SetRateLimitExclusive ==
  \A p, q \in Procs :
    p # q => /\ ~(pc[p] = "srl_new" /\ pc[q] = "al_load")
             /\ InCriticalSection(p) /\ InCriticalSection(q) => loc[p].l # loc[q].l

\* C10: the client NewAlloyClient returns has a limiter of rate 10 and burst
\* 20 whose bucket is full: while no time has passed at most 20 Waits have
\* returned nil, and a Wait sleeps or fails for its deadline only when 20
\* have.
C10_DefaultLimiter ==
  /\ ref = 0 /\ lims[0].limit = 10 /\ lims[0].burst = 20
  /\ now = 0 =>
       /\ admits <= 20
       /\ \A p \in Procs :
            gh[p].waited \/ gh[p].refused = "deadline" => admits = 20

\* With no time passed, 20 calls have been admitted and the 21st waits.
C10_Witness ==
  /\ now = 0 /\ admits = 20 /\ budget = DefaultBurst + ExtraCalls - 21
  /\ \E p \in Procs : pc[p] = "waiting" /\ gh[p].waited /\ ~gh[p].admitted

\* Callers that hold a reservation whose token is not yet theirs.
Reserved == {p \in Procs : pc[p] \in {"waiting", "w_cancel", "w_cancel_cs"}}

ReserveDone(p) == BurstRead(p) /\ pc[p] \notin {"w_res", "w_res_cs"}

\* C6: a Wait that finds a whole token in the bucket takes exactly that token
\* and returns nil without sleeping; a Wait that finds none, on a limiter of
\* burst at least 1 and with a context that is never done, sleeps; and a
\* sleeping Wait whose reservation was made at a positive rate is eventually
\* admitted unless its context is done first.
C6_Admission ==
  /\ [](\A p \in Procs :
          /\ gh[p].avail => gh[p].admitted /\ ~gh[p].waited /\ gh[p].took = TokenUnit
          /\ ReserveDone(p) /\ loc[p].wburst >= 1 /\ loc[p].ctx = "background"
               /\ ~gh[p].avail => gh[p].waited /\ gh[p].refused = "none")
  /\ \A p \in Procs :
       (pc[p] = "waiting" /\ loc[p].rLimit > 0) ~> (gh[p].admitted \/ CtxDone(p))

\* A call with a context that is never done slept for its token and was
\* admitted.
C6_Witness ==
  \E p \in Procs :
    /\ loc[p].ctx = "background" /\ gh[p].waited /\ gh[p].admitted
    /\ ~gh[p].avail /\ loc[p].rLimit > 0 /\ now >= loc[p].rTime

\* The span operation op of caller p has returned.
SpanOpDone(p) ==
  pc[p] = "done" /\ loc[p].op \in {"StartTrace", "AddSpan", "AddSpanWithAttr"}

\* C11: on a client without a tracer every span operation returns 'tracer
\* not initialized' and nothing else: no span is started, no operation gets
\* past its nil check, none panics.
C11_NoTracer ==
  Tracer = "nil" =>
    /\ spans = <<>>
    /\ \A p \in Procs :
         /\ pc[p] \notin {"as_start", "as_end", "panic"}
         /\ SpanOpDone(p) => ret[p] = ErrorResult(ErrTracer) /\ gh[p].span = 0

\* AddSpan with an empty tracer name has returned 'tracer not initialized'
\* on a client literal.
C11_Witness ==
  \E p \in Procs :
    /\ Tracer = "nil" /\ SpanOpDone(p) /\ loc[p].op = "AddSpan"
    /\ loc[p].tracerName = "" /\ ret[p].err = ErrTracer

\* The Shutdown call of caller p has returned.
ShutdownDone(p) == pc[p] = "done" /\ loc[p].op = "Shutdown"

\* C12: Shutdown returns an error exactly when the client has a callback and
\* the callback returned an error, and the error it returns is made of the
\* callback's error; without a callback nothing is invoked, the pipeline is
\* as it was and Shutdown returns nil.
C12_ShutdownError ==
  /\ \A p \in Procs :
       ShutdownDone(p) =>
         /\ ret[p].err # ErrNone
              <=> ~ShutdownAbsent(traceShutdown) /\ gh[p].invoked = 1 /\ gh[p].cause # "none"
         /\ gh[p].cause # "none" => ret[p] = ErrorResult(ShutdownError(gh[p].cause))
         /\ ShutdownAbsent(traceShutdown) => ret[p] = Success /\ gh[p].invoked = 0
  /\ ShutdownAbsent(traceShutdown) => cbCalls = 0 /\ tp = NoTracerProvider

\* A Shutdown whose callback failed has returned the error made of the
\* callback's.
C12_Witness ==
  \E p \in Procs :
    /\ ShutdownDone(p) /\ gh[p].invoked = 1 /\ gh[p].cause = ErrCanceled
    /\ ret[p].err = ShutdownError(ErrCanceled)

\* C13: over all the Shutdown calls on one client the shutdown callback is
\* invoked at most once.
C13_CallbackOnce == cbCalls <= 1

StartTraceDone(p) ==
  pc[p] = "done" /\ loc[p].op = "StartTrace" /\ ret[p].err = ErrNone

Answered(p) == AddLogDone(p) /\ gh[p].served # 0

\* C15: whenever the log endpoint returns a response, AddLog returns that
\* response, and it returns an error if and only if the status of the
\* response is 300 or greater.
C15_ResponseReturned ==
  \A p \in Procs :
    Answered(p) =>
      /\ ret[p].hasResp
      /\ ret[p].status = gh[p].served
      /\ ret[p].err # ErrNone <=> ret[p].status >= StatusThreshold

\* The endpoint has answered 400, and AddLog has returned an error together
\* with the response of status 400.
C15_Witness ==
  \E p \in Procs :
    /\ Answered(p) /\ gh[p].served = StatusBadRequest
    /\ ret[p].hasResp /\ ret[p].status = StatusBadRequest /\ ret[p].err = ErrStatus

\* client.Do of caller p's AddLog has failed without a response.
TransportFailed(p) == AddLogDone(p) /\ gh[p].sent = 1 /\ gh[p].served = 0

\* C16: on a transport failure AddLog returns an error and no response.
C16_TransportFailure ==
  \A p \in Procs :
    TransportFailed(p) => ret[p].err = ErrSend /\ ~ret[p].hasResp

\* An AddLog whose client.Do failed without a response has returned.
C16_Witness ==
  \E p \in Procs : TransportFailed(p) /\ ret[p].err = ErrSend /\ ~ret[p].hasResp

\* Caller p's AddLog has returned after its Wait admitted it, with a valid
\* level and message.
Passed(p) ==
  /\ AddLogDone(p) /\ gh[p].admitted
  /\ ValidationError(loc[p].level, loc[p].msg) = ErrNone

Posted(p) == loc[p].op = "AddLog" /\ gh[p].sent = 1

\* s with every byte that is not valid UTF-8 replaced by U+FFFD.
ToValidUTF8(s) == [i \in 1..Len(s) |-> IF s[i] = BadByte THEN Replacement ELSE s[i]]

\* C18 as stated: the server decodes as the correlation id the value the
\* context carries under request_id, or "unknown" when it carries none, and
\* as the message the msg argument unchanged.
C18_RoundTrip ==
  \A p \in Procs :
    Posted(p) =>
      LET d == Unmarshal(loc[p].jsonBytes) IN
        /\ d.message = GoString(loc[p].msg)
        /\ IF loc[p].value = NoValue THEN d.request_id = GoString(Unknown)
           ELSE IF loc[p].value.t = "string" THEN d.request_id = loc[p].value
           ELSE d.request_id.t = "number" /\ d.request_id.v = loc[p].value.v

\* C18: the server decodes as the message the msg argument with every byte
\* that is not valid UTF-8 replaced by U+FFFD, and as the correlation id
\* "unknown" when the context carries none, the number when it carries an
\* int, and the string, its invalid bytes replaced likewise, when it carries
\* a string; a record whose correlation id cannot be marshalled is not sent.
C18_RoundTripValidUTF8 ==
  \A p \in Procs :
    /\ Posted(p) =>
         LET d == Unmarshal(loc[p].jsonBytes) IN
           /\ d.message.t = "string"
           /\ d.message.v = ToValidUTF8(loc[p].msg)
           /\ IF loc[p].value = NoValue THEN d.request_id = GoString(Unknown)
              ELSE IF loc[p].value.t = "string"
              THEN /\ d.request_id.t = "string"
                   /\ d.request_id.v = ToValidUTF8(loc[p].value.v)
              ELSE d.request_id.t = "number" /\ d.request_id.v = loc[p].value.v
    /\ loc[p].op = "AddLog" /\ loc[p].value.t = "chan" => gh[p].sent = 0

\* A record with a quote in its message and a request id has been posted,
\* and the server decodes both as they were given.
C18_Witness ==
  \E p \in Procs :
    /\ Posted(p) /\ gh[p].served = StatusOK
    /\ Quote \in {loc[p].msg[i] : i \in 1..Len(loc[p].msg)}
    /\ loc[p].value = GoString(<<"abc-123">>)
    /\ Unmarshal(loc[p].jsonBytes).message = GoString(loc[p].msg)
    /\ Unmarshal(loc[p].jsonBytes).request_id = loc[p].value

\* C19: every record AddLog posts has the six fields timestamp, level,
\* message, is_secret, service_name and request_id, the service name is the
\* one of the Config, and is_secret is the boolean false.
C19_SixFieldsSecretFalse ==
  \A p \in Procs :
    Posted(p) =>
      LET d == Unmarshal(loc[p].jsonBytes) IN
        /\ DOMAIN d = {"timestamp", "level", "message", "is_secret",
                       "service_name", "request_id"}
        /\ d.service_name = GoString(<<cfg.ServiceName>>)
        /\ d.is_secret.t = "bool"
        /\ d.is_secret.v = FALSE

(***************************************************************************)
(* AddSpan and AddSpanWithAttr.                                            *)
(***************************************************************************)
\* Caller p's AddSpan or AddSpanWithAttr has returned without error.
AddSpanDone(p) ==
  /\ pc[p] = "done" /\ loc[p].op \in {"AddSpan", "AddSpanWithAttr"}
  /\ ret[p].err = ErrNone

\* A span of AddSpan or AddSpanWithAttr is open only while its call is
\* between its Start and its End.
NoSpanLeftOpen ==
  \A i \in DOMAIN spans :
    spans[i].by \in {"AddSpan", "AddSpanWithAttr"} /\ ~spans[i].ended
      => \E p \in Procs : pc[p] = "as_end" /\ gh[p].span = i

NewDone(p) == pc[p] = "done" /\ loc[p].op = "NewAlloyClient"

\* C22: NewAlloyClient returns either a nil client and the error of the
\* initialization that failed, or no error and a client with a tracer, a
\* shutdown callback and a rate limiter, never a client with an error, and
\* it calls each initialization at most once.
C22_AllOrNothing ==
  \A p \in Procs :
    /\ gh[p].tracerInits <= 1 /\ gh[p].logInits <= 1
    /\ NewDone(p) =>
         /\ ret[p].err # ErrNone <=> ret[p].client = "nil"
         /\ ret[p].err # ErrNone <=> gh[p].cause # "none"
         /\ gh[p].cause # "none" => ret[p].err = gh[p].cause
         /\ ret[p].err = ErrNone =>
              /\ Tracer = "sdk" /\ traceShutdown = "tp.Shutdown" /\ ref # Nil
              /\ lims[ref].limit = DefaultRate /\ lims[ref].burst = DefaultBurst

\* A NewAlloyClient whose tracer initialization failed has returned a nil
\* client and that error.
C22_Witness ==
  \E p \in Procs :
    /\ NewDone(p) /\ gh[p].cause = ErrExporter
    /\ ret[p].client = "nil" /\ ret[p].err = ErrExporter

\* C25: when the logger initialization fails after the tracer initialization
\* succeeded, NewAlloyClient returns the error and a nil client without
\* having invoked the shutdown callback: the provider stays registered and
\* running, and no client holds its Shutdown.
C25_PipelineLeftLive ==
  \A p \in Procs :
    NewDone(p) /\ gh[p].logInits = 1 /\ gh[p].cause = ErrLogDir =>
      /\ ret[p].client = "nil" /\ ret[p].err = ErrLogDir
      /\ gh[p].invoked = 0 /\ cbCalls = 0
      /\ tp.registered /\ ~tp.isShutdown /\ ~tp.stopped /\ ~tp.released
      /\ traceShutdown = "nil" /\ Tracer = "nil"

\* A NewAlloyClient whose logger initialization failed has returned while
\* the provider it made is registered and running.
C25_Witness ==
  \E p \in Procs :
    /\ NewDone(p) /\ gh[p].tracerInits = 1 /\ gh[p].cause = ErrLogDir
    /\ ret[p].client = "nil" /\ tp.registered /\ ~tp.stopped /\ cbCalls = 0

(***************************************************************************)
(* The client after Shutdown.                                              *)
(***************************************************************************)
\* A Shutdown is under way.
InShutdown == \E p \in Procs : pc[p] \in {"sd_check", "sd_callback"}

\* The callback has shut the provider down.
ShutDown == cbCalls >= 1 /\ tp.isShutdown

\* C24: no step of a Shutdown changes the client's tracer, shutdown
\* callback, config or rate limiter, and once the client is shut down
\* StartTrace and AddSpan still return no error and an AddLog that passes
\* admission and validation still sends its record.
C24_ShutdownKeepsClient ==
  /\ [][InShutdown => UNCHANGED <<Tracer, traceShutdown, cfg, ref, lims>>]_vars
  /\ [](ShutDown =>
          /\ HasClient /\ ~ShutdownAbsent(traceShutdown)
          /\ \A p \in Procs :
               /\ pc[p] = "done" /\ loc[p].op \in {"StartTrace", "AddSpan"}
                    => ret[p].err = ErrNone /\ gh[p].span \in DOMAIN spans
               /\ Passed(p) /\ cfg.LogEndpoint # BadEndpoint => gh[p].sent = 1)

\* After a Shutdown that shut the provider down, StartTrace has returned a
\* span without error.
C24_Witness ==
  \E p \in Procs :
    /\ ShutDown /\ pc[p] = "done" /\ loc[p].op = "StartTrace"
    /\ ret[p].err = ErrNone /\ gh[p].span \in DOMAIN spans

(***************************************************************************)
(* AddLog on every client, and on every level.                             *)
(***************************************************************************)
\* C23: AddLog faults on no client, the client literal without a rate
\* limiter included: every call returns.
C23_AddLogNeverFaults ==
  \A p \in Procs : loc[p].op = "AddLog" => pc[p] # "panic"

\* C26: AddLog returns 'invalid log level' exactly for the levels outside
\* Debug..Panic.
C26_LevelRange ==
  \A p \in Procs :
    AddLogDone(p) =>
      (ret[p].err = ErrLevel <=> loc[p].level \notin DebugLevel..PanicLevel)

(***************************************************************************)
(* SetRateLimit on a client without limiter.                               *)
(***************************************************************************)
\* Caller p's SetRateLimit has returned; it had found no limiter.
Installed(p) == pc[p] = "done" /\ loc[p].op = "SetRateLimit" /\ ~gh[p].had

\* C27: a SetRateLimit that finds no limiter leaves a limiter with exactly
\* the rate and the burst it was given, whatever their sign, a new one with
\* a full bucket when both are positive; a SetRateLimit that finds a limiter
\* changes neither its rate nor its burst to a value that is not positive.
C27_InstallsGiven ==
  \A p \in Procs :
    /\ Installed(p) =>
         /\ ref # Nil
         /\ lims[ref].limit = loc[p].argLimit
         /\ lims[ref].burst = loc[p].argBurst
         /\ loc[p].argLimit > 0 /\ loc[p].argBurst > 0
              => lims[ref].tokens = loc[p].argBurst * TokenUnit
    /\ pc[p] = "done" /\ loc[p].op = "SetRateLimit" /\ gh[p].had =>
         /\ loc[p].argLimit <= 0 => lims[ref].limit = gh[p].preLimit
         /\ loc[p].argBurst <= 0 => lims[ref].burst = gh[p].preBurst

\* SetRateLimit(-1, 0) has returned on a client literal: the client has a
\* limiter of rate -1 and burst 0.
C27_Witness ==
  \E p \in Procs :
    /\ Installed(p) /\ loc[p].argLimit = 0 - 1 /\ loc[p].argBurst = 0
    /\ ref # Nil /\ lims[ref].limit = 0 - 1 /\ lims[ref].burst = 0

(***************************************************************************)
(* The attributes of the variant of AddLog.                                *)
(***************************************************************************)
\* The positions of attrs, counted from 1, that hold the key of a pair.
KeyPositions(attrs) == {j \in DOMAIN attrs : j % 2 = 1 /\ attrs[j].t = "string"}

\* C28: the variant of AddLog faults on no attribute list, and it reads the
\* list as pairs: the keys of attrMap are the string keys of the pairs, and
\* each has the value of the last pair with that key.
C28_VariadicAttrs ==
  \A p \in Procs :
    loc[p].op = "AddLogAttrs" =>
      /\ pc[p] # "panic"
      /\ pc[p] \in {"post", "done"} =>
           LET attrs == loc[p].attrs
               keys == {j \in KeyPositions(attrs) : j + 1 <= Len(attrs)}
           IN /\ DOMAIN loc[p].attrMap = {attrs[j].v : j \in keys}
              /\ \A j \in keys :
                   (\A l \in keys : attrs[l].v = attrs[j].v => l <= j)
                     => loc[p].attrMap[attrs[j].v] = attrs[j + 1]

====
